---- MODULE Spec2Model ----
(***************************************************************************)
(* Faceted-filter state coordinator of the movie catalogue (src/src/App.jsx *)
(* component App, with the Dropdown callbacks that drive it).               *)
(*                                                                         *)
(* One action is one browser task: a user event handler together with the  *)
(* render and the useEffect callbacks it triggers, or the .then callback of *)
(* one fetch.  Requests in flight are kept in a bag; the network may answer *)
(* them in any order, or fail them.                                         *)
(***************************************************************************)
EXTENDS Integers, Sequences, FiniteSets, Bags, TLC

VARIABLES
    movies, search,
    genres, countries, actors, directors,
    selectedGenre, selectedCountry, selectedYear, selectedActor, selectedDirector,
    actorSearch, directorSearch,
    page, hasMore,
    genrePage, countryPage, actorPage, directorPage,
    hasMoreGenres, hasMoreCountries, hasMoreActors, hasMoreDirectors,
    inflight,   \* bag of fetches whose promise has not settled yet
    last,       \* the user event handled last ("mount" before the first)
    events      \* number of user events handled since the initial state

selVars   == <<search, selectedGenre, selectedCountry, selectedYear, selectedActor,
               selectedDirector>>
termVars  == <<actorSearch, directorSearch>>
movieVars == <<movies, page, hasMore>>
genreVars == <<genres, genrePage, hasMoreGenres>>
countryVars == <<countries, countryPage, hasMoreCountries>>
actorVars == <<actors, actorPage, hasMoreActors>>
directorVars == <<directors, directorPage, hasMoreDirectors>>
facetVars == <<genreVars, countryVars, actorVars, directorVars>>
vars == <<selVars, termVars, movieVars, facetVars, inflight, last, events>>

----------------------------------------------------------------------------
(* Bounds of the exploration. *)

\* user events (clicks, key strokes, scrolls) explored per behaviour
MaxEvents == 2
\* pages the catalogue service holds for a movie query that matches any movie
MoviePages == 2

----------------------------------------------------------------------------
(* Values. Strings are sequences of one-character strings. *)

\* JavaScript null of useState(null)
Null == -1

Digits == <<"0", "1", "2", "3", "4", "5", "6", "7", "8", "9">>

\* String(n) / template-literal and URLSearchParams stringification of a number
RECURSIVE ToStr(_)
ToStr(n) == IF n < 10 THEN <<Digits[n + 1]>>
            ELSE Append(ToStr(n \div 10), Digits[(n % 10) + 1])

IsSpace(c) == c = " "

\* String.prototype.trim
RECURSIVE TrimStart(_)
TrimStart(s) == IF s # <<>> /\ IsSpace(Head(s)) THEN TrimStart(Tail(s)) ELSE s
RECURSIVE TrimEnd(_)
TrimEnd(s) == IF s # <<>> /\ IsSpace(s[Len(s)]) THEN TrimEnd(SubSeq(s, 1, Len(s) - 1)) ELSE s
Trim(s) == TrimEnd(TrimStart(s))

\* String.prototype.toLowerCase on the characters the model uses
LowerChar(c) == CASE c = "A" -> "a" [] c = "B" -> "b" [] OTHER -> c
ToLowerCase(s) == [i \in 1..Len(s) |-> LowerChar(s[i])]

\* String.prototype.includes
Includes(s, t) == \E i \in 0..(Len(s) - Len(t)) : SubSeq(s, i + 1, i + Len(t)) = t

\* JavaScript truthiness of a selected id: null and 0 are falsy
Truthy(v) == v # Null /\ v # 0

----------------------------------------------------------------------------
(* The catalogue service (external): what it answers to a URL. *)

GenreCatalog == << [id |-> 1, name |-> <<"d">>], [id |-> 2, name |-> <<"w">>] >>
CountryCatalog == << [id |-> 7, name |-> <<"f">>], [id |-> 8, name |-> <<"u">>] >>
PersonCatalog == << [id |-> 3, name_ru |-> <<"A", "n", "n">>],
                    [id |-> 4, name_ru |-> <<"a", "n", "n", "a">>],
                    [id |-> 5, name_ru |-> <<"B", "o", "b">>] >>

\* value of the first pair with key k in a URLSearchParams-like sequence, or dflt
RECURSIVE ParamGet(_, _, _)
ParamGet(params, k, dflt) ==
    IF params = <<>> THEN dflt
    ELSE IF Head(params)[1] = k THEN Head(params)[2]
    ELSE ParamGet(Tail(params), k, dflt)

ParamKeys(params) == {params[i][1] : i \in 1..Len(params)}

\* the filter part of a movie URL: every pair but the page
FilterOf(params) == SelectSeq(params, LAMBDA kv : kv[1] # "page")

\* page number named by a URL (page 1 when it names none)
DigitValue(c) == CHOOSE d \in 0..9 : Digits[d + 1] = c
RECURSIVE ParseInt(_)
ParseInt(s) == IF s = <<>> THEN 0
               ELSE 10 * ParseInt(SubSeq(s, 1, Len(s) - 1)) + DigitValue(s[Len(s)])
UrlPage(params) == ParseInt(ParamGet(params, "page", <<"1">>))

\* the rows the service holds for a URL, one row per page; no movie of the catalogue
\* is of a year the year list offers
Rows(endpoint, params) ==
    CASE endpoint = "genre" -> GenreCatalog
      [] endpoint = "country" -> CountryCatalog
      [] endpoint = "person" ->
           SelectSeq(PersonCatalog,
                     LAMBDA p : Includes(ToLowerCase(p.name_ru),
                                         ToLowerCase(ParamGet(params, "search", <<>>))))
      [] endpoint = "movie" ->
           IF "release_year" \in ParamKeys(params) THEN <<>>
           ELSE [n \in 1..MoviePages |-> [query |-> FilterOf(params), part |-> n]]

\* the JSON body {results, next} of a successful answer
Answers(endpoint, params) ==
    LET n == UrlPage(params)
        rows == Rows(endpoint, params)
    IN  (n = 1 \/ n \in 1..Len(rows))
Results(endpoint, params) ==
    LET n == UrlPage(params)
        rows == Rows(endpoint, params)
    IN  IF n \in 1..Len(rows) THEN <<rows[n]>> ELSE <<>>
HasNext(endpoint, params) == UrlPage(params) < Len(Rows(endpoint, params))

----------------------------------------------------------------------------
(* Inputs the user can give. *)

TitleInputs == { <<>>, <<" ">>, <<" ", "x">> }
TermInputs == { <<"a", "n">>, <<"a", "n", "n">>, <<"b", "o", "b">> }
FirstYear == 1990
LastYear == 2025
YearInputs == {LastYear}

----------------------------------------------------------------------------
(* Requests. *)

Request(fn, endpoint, params, setter, p, append) ==
    [fn |-> fn, endpoint |-> endpoint, params |-> params, setter |-> setter,
     page |-> p, append |-> append]

One(r) == SetToBag({r})
Pending == BagToSet(inflight)
PendingOf(setter) == {r \in Pending : r.setter = setter}

\* fetchData putting its request in flight twice
fetchDataTwice(endpoint, pg, append) ==
    LET r == Request("fetchData", endpoint, <<<<"page", ToStr(pg)>>>>, endpoint, pg, append)
    IN  One(r) (+) One(r)

\* fetchData wired to the genre setter whatever the endpoint
fetchDataWrongSetter(endpoint, pg, append) ==
    One(Request("fetchData", endpoint, <<<<"page", ToStr(pg)>>>>, "genre", pg, append))

\* fetchData: the request it puts in flight
fetchData(endpoint, pg, append) ==
    One(Request("fetchData", endpoint, <<<<"page", ToStr(pg)>>>>, endpoint, pg, append))

\* fetchPersons without its length guard
fetchPersonsNoGuard(type, term, pg, append) ==
    One(Request("fetchPersons", "person",
                <<<<"search", term>>>> \o
                   (IF pg > 1 THEN <<<<"page", ToStr(pg)>>>> ELSE <<>>),
                type, pg, append))

\* fetchPersons with its length guard off by one
fetchPersonsOffByOne(type, term, pg, append) ==
    IF Len(term) < 2 THEN EmptyBag ELSE fetchPersonsNoGuard(type, term, pg, append)

\* fetchPersons: nothing below three characters, else the request it puts in flight
fetchPersons(type, term, pg, append) ==
    IF Len(term) < 3 THEN EmptyBag
    ELSE One(Request("fetchPersons", "person",
                     <<<<"search", term>>>> \o
                        (IF pg > 1 THEN <<<<"page", ToStr(pg)>>>> ELSE <<>>),
                     type, pg, append))

\* the URLSearchParams fetchMovies builds from the values its closure holds
MovieParams(s, g, c, y, a, d, p) ==
    LET p0 == <<>>
        p1 == IF Trim(s) # <<>> THEN Append(p0, <<"search", Trim(s)>>) ELSE p0
        p2 == IF Truthy(g) THEN Append(p1, <<"genres", ToStr(g)>>) ELSE p1
        p3 == IF Truthy(c) THEN Append(p2, <<"countries", ToStr(c)>>) ELSE p2
        p4 == IF Truthy(y) THEN Append(p3, <<"release_year", ToStr(y)>>) ELSE p3
        p5 == IF Truthy(a) THEN Append(p4, <<"cast", ToStr(a)>>) ELSE p4
        p6 == IF Truthy(d) THEN Append(p5, <<"directors", ToStr(d)>>) ELSE p5
    IN  Append(p6, <<"page", ToStr(p)>>)

\* fetchMovies called from a render whose state is sel = <<search, selectedGenre, ...>>
fetchMovies(sel, p, append) ==
    One(Request("fetchMovies", "movie",
                MovieParams(sel[1], sel[2], sel[3], sel[4], sel[5], sel[6], p),
                "movie", p, append))

\* the effect fetching with the values of the render before the change
SelectionEffectStale(newSel) ==
    IF newSel # selVars THEN fetchMovies(selVars, 1, FALSE) ELSE EmptyBag

\* useEffect(..., [search, selectedGenre, ...]): runs when a dependency changed
SelectionEffect(newSel) ==
    IF newSel # selVars THEN fetchMovies(newSel, 1, FALSE) ELSE EmptyBag

\* the search effect fetching the movie list as well
SearchEffectWithMovies(type, oldTerm, newTerm) ==
    IF newTerm # oldTerm
    THEN fetchPersons(type, newTerm, 1, FALSE) (+) fetchMovies(selVars, 1, FALSE)
    ELSE EmptyBag

\* useEffect(..., [actorSearch]) and useEffect(..., [directorSearch])
SearchEffect(type, oldTerm, newTerm) ==
    IF newTerm # oldTerm THEN fetchPersons(type, newTerm, 1, FALSE) ELSE EmptyBag

----------------------------------------------------------------------------
(* Dropdown. *)

years == [i \in 1..(LastYear - FirstYear + 1) |->
            [id |-> LastYear - i + 1, name |-> ToStr(LastYear - i + 1)]]

\* the options a Dropdown lists under its search term
Filtered(options, searchTerm) ==
    SelectSeq(options, LAMBDA opt : Includes(ToLowerCase(opt.name), ToLowerCase(searchTerm)))

Ids(options) == {options[i].id : i \in 1..Len(options)}

\* onScroll reaches loadMore: the list shows rows to scroll and hasMore is set
CanLoadMore(options, searchTerm, more) == Filtered(options, searchTerm) # <<>> /\ more

----------------------------------------------------------------------------
(* State after mount: the mount effects have put their fetches in flight. *)

Init ==
    /\ movies = <<>> /\ search = <<>>
    /\ genres = <<>> /\ countries = <<>> /\ actors = <<>> /\ directors = <<>>
    /\ selectedGenre = Null /\ selectedCountry = Null /\ selectedYear = Null
    /\ selectedActor = Null /\ selectedDirector = Null
    /\ actorSearch = <<>> /\ directorSearch = <<>>
    /\ page = 1 /\ hasMore = FALSE
    /\ genrePage = 1 /\ countryPage = 1 /\ actorPage = 1 /\ directorPage = 1
    /\ hasMoreGenres = TRUE /\ hasMoreCountries = TRUE
    /\ hasMoreActors = TRUE /\ hasMoreDirectors = TRUE
    /\ inflight = fetchData("genre", 1, FALSE) (+) fetchData("country", 1, FALSE)
                    (+) fetchPersons("actor", <<>>, 1, FALSE)
                    (+) fetchPersons("director", <<>>, 1, FALSE)
                    (+) fetchMovies(<<<<>>, Null, Null, Null, Null, Null>>, 1, FALSE)
    /\ last = "mount"
    /\ events = 0

\* bookkeeping shared by the user-event actions
UserEvent(op) ==
    /\ events < MaxEvents
    /\ events' = events + 1
    /\ last' = op

----------------------------------------------------------------------------
(* User events. *)

\* onChange of the title input: setSearch(e.target.value)
SetSearch(v) ==
    /\ v # search
    /\ UserEvent("setSearch")
    /\ search' = v
    /\ inflight' = inflight (+)
         SelectionEffect(<<v, selectedGenre, selectedCountry, selectedYear, selectedActor,
                           selectedDirector>>)
    /\ UNCHANGED <<selectedGenre, selectedCountry, selectedYear, selectedActor,
                   selectedDirector, termVars, movieVars, facetVars>>

\* click on a row of the genre Dropdown: onSelect(opt.id)
SelectGenre(id) ==
    /\ id \in Ids(Filtered(genres, <<>>))
    /\ UserEvent("selectGenre")
    /\ selectedGenre' = id
    /\ inflight' = inflight (+)
         SelectionEffect(<<search, id, selectedCountry, selectedYear, selectedActor,
                           selectedDirector>>)
    /\ UNCHANGED <<search, selectedCountry, selectedYear, selectedActor, selectedDirector,
                   termVars, movieVars, facetVars>>

\* click on a row of the country Dropdown
SelectCountry(id) ==
    /\ id \in Ids(Filtered(countries, <<>>))
    /\ UserEvent("selectCountry")
    /\ selectedCountry' = id
    /\ inflight' = inflight (+)
         SelectionEffect(<<search, selectedGenre, id, selectedYear, selectedActor,
                           selectedDirector>>)
    /\ UNCHANGED <<search, selectedGenre, selectedYear, selectedActor, selectedDirector,
                   termVars, movieVars, facetVars>>

\* click on a row of the year Dropdown
SelectYear(id) ==
    /\ id \in YearInputs \cap Ids(Filtered(years, <<>>))
    /\ UserEvent("selectYear")
    /\ selectedYear' = id
    /\ inflight' = inflight (+)
         SelectionEffect(<<search, selectedGenre, selectedCountry, id, selectedActor,
                           selectedDirector>>)
    /\ UNCHANGED <<search, selectedGenre, selectedCountry, selectedActor, selectedDirector,
                   termVars, movieVars, facetVars>>

\* click on a row of the actor Dropdown: onSelect(opt.id), then onSearch('')
SelectActor(id) ==
    /\ id \in Ids(Filtered(actors, actorSearch))
    /\ UserEvent("selectActor")
    /\ selectedActor' = id
    /\ actorSearch' = <<>>
    /\ inflight' = inflight
         (+) SearchEffect("actor", actorSearch, <<>>)
         (+) SelectionEffect(<<search, selectedGenre, selectedCountry, selectedYear, id,
                               selectedDirector>>)
    /\ UNCHANGED <<search, selectedGenre, selectedCountry, selectedYear, selectedDirector,
                   directorSearch, movieVars, facetVars>>

\* click on a row of the director Dropdown
SelectDirector(id) ==
    /\ id \in Ids(Filtered(directors, directorSearch))
    /\ UserEvent("selectDirector")
    /\ selectedDirector' = id
    /\ directorSearch' = <<>>
    /\ inflight' = inflight
         (+) SearchEffect("director", directorSearch, <<>>)
         (+) SelectionEffect(<<search, selectedGenre, selectedCountry, selectedYear,
                               selectedActor, id>>)
    /\ UNCHANGED <<search, selectedGenre, selectedCountry, selectedYear, selectedActor,
                   actorSearch, movieVars, facetVars>>

\* onChange of the actor Dropdown's input: onSearch(e.target.value)
SetActorSearch(term) ==
    /\ term # actorSearch
    /\ UserEvent("setActorSearch")
    /\ actorSearch' = term
    /\ inflight' = inflight (+) SearchEffect("actor", actorSearch, term)
    /\ UNCHANGED <<selVars, directorSearch, movieVars, facetVars>>

\* onChange of the director Dropdown's input
SetDirectorSearch(term) ==
    /\ term # directorSearch
    /\ UserEvent("setDirectorSearch")
    /\ directorSearch' = term
    /\ inflight' = inflight (+) SearchEffect("director", directorSearch, term)
    /\ UNCHANGED <<selVars, actorSearch, movieVars, facetVars>>

\* mousedown outside the actor and director Dropdowns: each calls onSearch?.('')
CloseOnOutsideClick ==
    /\ UserEvent("closeOnOutsideClick")
    /\ actorSearch' = <<>>
    /\ directorSearch' = <<>>
    /\ inflight' = inflight
         (+) SearchEffect("actor", actorSearch, actorSearch')
         (+) SearchEffect("director", directorSearch, directorSearch')
    /\ UNCHANGED <<selVars, movieVars, facetVars>>

\* scroll to the bottom of the genre list: loadMore
LoadMoreGenres ==
    /\ CanLoadMore(genres, <<>>, hasMoreGenres)
    /\ UserEvent("loadMoreGenres")
    /\ inflight' = inflight (+) fetchData("genre", genrePage + 1, TRUE)
    /\ UNCHANGED <<selVars, termVars, movieVars, facetVars>>

\* scroll to the bottom of the country list
LoadMoreCountries ==
    /\ CanLoadMore(countries, <<>>, hasMoreCountries)
    /\ UserEvent("loadMoreCountries")
    /\ inflight' = inflight (+) fetchData("country", countryPage + 1, TRUE)
    /\ UNCHANGED <<selVars, termVars, movieVars, facetVars>>

\* scroll to the bottom of the actor list
LoadMoreActors ==
    /\ CanLoadMore(actors, actorSearch, hasMoreActors)
    /\ UserEvent("loadMoreActors")
    /\ inflight' = inflight (+) fetchPersons("actor", actorSearch, actorPage + 1, TRUE)
    /\ UNCHANGED <<selVars, termVars, movieVars, facetVars>>

\* scroll to the bottom of the director list
LoadMoreDirectors ==
    /\ CanLoadMore(directors, directorSearch, hasMoreDirectors)
    /\ UserEvent("loadMoreDirectors")
    /\ inflight' = inflight (+) fetchPersons("director", directorSearch, directorPage + 1, TRUE)
    /\ UNCHANGED <<selVars, termVars, movieVars, facetVars>>

\* the "more" button rendered whatever hasMore is
CanLoadMoreMoviesAlways == TRUE

\* the "more" button under the movie list is rendered while hasMore is set
CanLoadMoreMovies == hasMore

\* click on the "more" button: fetchMovies(page + 1, true)
LoadMoreMovies ==
    /\ CanLoadMoreMovies
    /\ UserEvent("loadMoreMovies")
    /\ inflight' = inflight (+) fetchMovies(selVars, page + 1, TRUE)
    /\ UNCHANGED <<selVars, termVars, movieVars, facetVars>>

\* the movie fetch reset() makes itself, from the render it was created in
ResetFetch == fetchMovies(selVars, 1, FALSE)

\* click on the reset button
reset ==
    /\ UserEvent("reset")
    /\ search' = <<>>
    /\ selectedGenre' = Null /\ selectedCountry' = Null /\ selectedYear' = Null
    /\ selectedActor' = Null /\ selectedDirector' = Null
    /\ actorSearch' = <<>> /\ directorSearch' = <<>>
    /\ inflight' = inflight
         (+) ResetFetch
         (+) SearchEffect("actor", actorSearch, <<>>)
         (+) SearchEffect("director", directorSearch, <<>>)
         (+) SelectionEffect(<<<<>>, Null, Null, Null, Null, Null>>)
    /\ UNCHANGED <<movieVars, facetVars>>

----------------------------------------------------------------------------
(* Fetch completions. *)

Settle(r) ==
    /\ inflight' = inflight (-) One(r)
    /\ UNCHANGED <<last, events>>

\* setter((prev) => append ? [...prev, ...items] : items)
Applied(prev, r, items) == IF r.append THEN prev \o items ELSE items

\* mapFn of fetchData
MapOption(i) == [id |-> i.id, name |-> i.name]
\* the mapping fetchPersons applies
MapPerson(p) == [id |-> p.id, name |-> p.name_ru]

\* .then of fetchData
FetchDataThen(r) ==
    /\ r \in Pending /\ r.fn = "fetchData"
    /\ Answers(r.endpoint, r.params)
    /\ LET results == Results(r.endpoint, r.params)
           data == [i \in 1..Len(results) |-> MapOption(results[i])]
           next == HasNext(r.endpoint, r.params)
       IN  /\ genres' = IF r.setter = "genre" THEN Applied(genres, r, data) ELSE genres
           /\ countries' = IF r.setter = "country" THEN Applied(countries, r, data)
                           ELSE countries
           /\ IF r.endpoint = "genre"
              THEN /\ hasMoreGenres' = next /\ genrePage' = r.page
                   /\ UNCHANGED <<hasMoreCountries, countryPage>>
              ELSE IF r.endpoint = "country"
              THEN /\ hasMoreCountries' = next /\ countryPage' = r.page
                   /\ UNCHANGED <<hasMoreGenres, genrePage>>
              ELSE UNCHANGED <<hasMoreGenres, genrePage, hasMoreCountries, countryPage>>
    /\ Settle(r)
    /\ UNCHANGED <<selVars, termVars, movieVars, actorVars, directorVars>>

\* .then of fetchPersons
FetchPersonsThen(r) ==
    /\ r \in Pending /\ r.fn = "fetchPersons"
    /\ Answers(r.endpoint, r.params)
    /\ LET results == Results(r.endpoint, r.params)
           data == [i \in 1..Len(results) |-> MapPerson(results[i])]
           next == HasNext(r.endpoint, r.params)
       IN  IF r.setter = "actor"
           THEN /\ actors' = Applied(actors, r, data)
                /\ hasMoreActors' = next /\ actorPage' = r.page
                /\ UNCHANGED directorVars
           ELSE /\ directors' = Applied(directors, r, data)
                /\ hasMoreDirectors' = next /\ directorPage' = r.page
                /\ UNCHANGED actorVars
    /\ Settle(r)
    /\ UNCHANGED <<selVars, termVars, movieVars, genreVars, countryVars>>

\* .then of fetchMovies
FetchMoviesThen(r) ==
    /\ r \in Pending /\ r.fn = "fetchMovies"
    /\ Answers(r.endpoint, r.params)
    /\ movies' = Applied(movies, r, Results(r.endpoint, r.params))
    /\ hasMore' = HasNext(r.endpoint, r.params)
    /\ page' = r.page
    /\ Settle(r)
    /\ UNCHANGED <<selVars, termVars, facetVars>>

\* a failure handler that empties the list the fetch was for
FetchRejectsClearing(r) ==
    /\ r \in Pending
    /\ Settle(r)
    /\ genres' = IF r.setter = "genre" THEN <<>> ELSE genres
    /\ countries' = IF r.setter = "country" THEN <<>> ELSE countries
    /\ actors' = IF r.setter = "actor" THEN <<>> ELSE actors
    /\ directors' = IF r.setter = "director" THEN <<>> ELSE directors
    /\ movies' = IF r.setter = "movie" THEN <<>> ELSE movies
    /\ UNCHANGED <<selVars, termVars, page, hasMore, genrePage, hasMoreGenres,
                   countryPage, hasMoreCountries, actorPage, hasMoreActors,
                   directorPage, hasMoreDirectors>>

\* the promise of a fetch rejects (network failure, or no such page): no .then runs
FetchRejects(r) ==
    /\ r \in Pending
    /\ Settle(r)
    /\ UNCHANGED <<selVars, termVars, movieVars, facetVars>>

----------------------------------------------------------------------------

\* every step but a failing fetch
NextOk ==
    \/ \E v \in TitleInputs : SetSearch(v)
    \/ \E id \in Ids(GenreCatalog) : SelectGenre(id)
    \/ \E id \in Ids(CountryCatalog) : SelectCountry(id)
    \/ \E id \in YearInputs : SelectYear(id)
    \/ \E id \in Ids(PersonCatalog) : SelectActor(id)
    \/ \E id \in Ids(PersonCatalog) : SelectDirector(id)
    \/ \E term \in TermInputs : SetActorSearch(term)
    \/ \E term \in TermInputs : SetDirectorSearch(term)
    \/ CloseOnOutsideClick
    \/ LoadMoreGenres
    \/ LoadMoreCountries
    \/ LoadMoreActors
    \/ LoadMoreDirectors
    \/ LoadMoreMovies
    \/ reset
    \/ \E r \in Pending : FetchDataThen(r)
    \/ \E r \in Pending : FetchPersonsThen(r)
    \/ \E r \in Pending : FetchMoviesThen(r)

Next ==
    \/ NextOk
    \/ \E r \in Pending : FetchRejects(r)

Spec == Init /\ [][Next]_vars

\* the same program on a network that answers every fetch it settles
SpecOk == Init /\ [][NextOk]_vars

\* the program taken up right after "ann" was typed into the actor dropdown of the
\* freshly mounted page: the mount fetches and the person fetch for "ann" in flight
InitTyped ==
    /\ movies = <<>> /\ search = <<>>
    /\ genres = <<>> /\ countries = <<>> /\ actors = <<>> /\ directors = <<>>
    /\ selectedGenre = Null /\ selectedCountry = Null /\ selectedYear = Null
    /\ selectedActor = Null /\ selectedDirector = Null
    /\ actorSearch = <<"a", "n", "n">> /\ directorSearch = <<>>
    /\ page = 1 /\ hasMore = FALSE
    /\ genrePage = 1 /\ countryPage = 1 /\ actorPage = 1 /\ directorPage = 1
    /\ hasMoreGenres = TRUE /\ hasMoreCountries = TRUE
    /\ hasMoreActors = TRUE /\ hasMoreDirectors = TRUE
    /\ inflight = fetchData("genre", 1, FALSE) (+) fetchData("country", 1, FALSE)
                    (+) fetchMovies(<<<<>>, Null, Null, Null, Null, Null>>, 1, FALSE)
                    (+) SearchEffect("actor", <<>>, <<"a", "n", "n">>)
    /\ last = "setActorSearch"
    /\ events = 0

SpecTyped == InitTyped /\ [][Next]_vars

----------------------------------------------------------------------------
(* Vocabulary of the properties. *)

\* the requests a step puts in flight
Issued == inflight' (-) inflight
IssuedSet == BagToSet(Issued)
IssuedBy(fn, setter) ==
    LET B == Issued
    IN  [r \in {x \in BagToSet(B) : x.fn = fn /\ x.setter = setter} |-> B[r]]
CountIssued(fn, setter) == BagCardinality(IssuedBy(fn, setter))

\* a step that handles the user event op
UserStep(op) == events' = events + 1 /\ last' = op

SelectOps == {"selectGenre", "selectCountry", "selectYear", "selectActor", "selectDirector"}
\* a step that is a select(facet, id) or a setTitleSearch(text)
SelectionStep == events' = events + 1 /\ last' \in SelectOps \cup {"setSearch"}

\* the filter pairs of the query composed from the current selections
CurrentFilter ==
    FilterOf(MovieParams(search, selectedGenre, selectedCountry, selectedYear,
                         selectedActor, selectedDirector, 1))

LazyTypes == {"actor", "director"}
SearchOf(type) == IF type = "actor" THEN actorSearch ELSE directorSearch
FacetOf(type) == IF type = "actor" THEN actorVars ELSE directorVars
PersonTerm(r) == ParamGet(r.params, "search", <<>>)

HasMoreOf(setter) ==
    CASE setter = "genre" -> hasMoreGenres
      [] setter = "country" -> hasMoreCountries
      [] setter = "actor" -> hasMoreActors
      [] setter = "director" -> hasMoreDirectors
      [] setter = "movie" -> hasMore

PairsOf(params) == {params[i] : i \in 1..Len(params)}
\* the filter part of request r is exactly the pairs of `expected`, each once
QueryIs(r, expected) ==
    /\ PairsOf(FilterOf(r.params)) = expected
    /\ Len(FilterOf(r.params)) = Cardinality(expected)

StrPair(k, v, present) == IF present THEN {<<k, v>>} ELSE {}
IdPair(k, id, present) == IF present THEN {<<k, ToStr(id)>>} ELSE {}

NoDuplicates(s) == \A i, j \in 1..Len(s) : i # j => s[i] # s[j]

UnfilteredPageOne == Results("movie", <<<<"page", <<"1">>>>>>)

----------------------------------------------------------------------------
(* The claims. *)

\* C1: the response of a movie fetch whose query is no longer the composed query
\* is discarded: it changes none of movies, hasMore and page.
C1_StaleMovieResponseDiscarded ==
    [][\A r \in Pending :
         (FetchMoviesThen(r) /\ FilterOf(r.params) # CurrentFilter)
            => UNCHANGED movieVars]_vars

\* C2: the response of a person fetch issued under an earlier search term, arriving
\* while the facet's term is a newer qualifying one, is discarded: it changes none
\* of the facet's options, hasMore and page.
C2_SupersededTermDiscarded ==
    [][\A r \in Pending :
         (/\ FetchPersonsThen(r)
          /\ Len(SearchOf(r.setter)) >= 3
          /\ PersonTerm(r) # SearchOf(r.setter))
            => UNCHANGED <<actorVars, directorVars>>]_vars

\* the query as C3 words it: a key for every non-empty / non-null selection, with
\* the selection's value
ClaimedQuery ==
    StrPair("search", search, search # <<>>)
      \cup IdPair("genres", selectedGenre, selectedGenre # Null)
      \cup IdPair("countries", selectedCountry, selectedCountry # Null)
      \cup IdPair("release_year", selectedYear, selectedYear # Null)
      \cup IdPair("cast", selectedActor, selectedActor # Null)
      \cup IdPair("directors", selectedDirector, selectedDirector # Null)

\* C3 as written: the movie fetch a select or setTitleSearch issues carries exactly
\* the keys whose selection is non-null / non-empty, each with its current value.
C3_QueryHasExactlyNonEmptySelections ==
    [][SelectionStep =>
         \A r \in IssuedSet : r.fn = "fetchMovies" => QueryIs(r, ClaimedQuery')]_vars

\* the query of the amended C3: the title search counts trimmed, an id counts when
\* it is truthy
TrimmedQuery ==
    StrPair("search", Trim(search), Trim(search) # <<>>)
      \cup IdPair("genres", selectedGenre, selectedGenre \notin {Null, 0})
      \cup IdPair("countries", selectedCountry, selectedCountry \notin {Null, 0})
      \cup IdPair("release_year", selectedYear, selectedYear \notin {Null, 0})
      \cup IdPair("cast", selectedActor, selectedActor \notin {Null, 0})
      \cup IdPair("directors", selectedDirector, selectedDirector \notin {Null, 0})

\* C3 amended: the movie fetch a select or setTitleSearch issues carries exactly:
\* search = the trimmed title search when that is non-empty, and each of genres,
\* countries, release_year, cast, directors whose selected id is non-null and
\* non-zero, with that id; no other key, none twice.
C3_QueryHasExactlyTrimmedSelections ==
    [][SelectionStep =>
         \A r \in IssuedSet : r.fn = "fetchMovies" => QueryIs(r, TrimmedQuery')]_vars

\* a blank title search typed after a genre was chosen: the fetch carries genres only
C3_Witness ==
    /\ last = "setSearch" /\ search = <<" ">> /\ selectedGenre # Null
    /\ \E r \in PendingOf("movie") : ParamKeys(FilterOf(r.params)) = {"genres"}

\* C4: a change of a selection or of the title search issues exactly one movie fetch,
\* for page 1 of the new composed query, and nothing requested before the change is
\* appended afterwards: an appended response carries the composed query.
C4_ChangeResetsToPageOne ==
    [][/\ (SelectionStep /\ selVars' # selVars) =>
             /\ CountIssued("fetchMovies", "movie") = 1
             /\ \A r \in IssuedSet :
                   r.page = 1 /\ ~r.append /\ FilterOf(r.params) = CurrentFilter'
       /\ \A r \in Pending :
             (FetchMoviesThen(r) /\ r.append) => FilterOf(r.params) = CurrentFilter
      ]_vars

\* C5: reset() empties the title search, the five selections and both facet search
\* terms and issues exactly one movie fetch, for page 1.
C5_ResetIssuesOneFetch ==
    [][UserStep("reset") =>
         /\ search' = <<>> /\ actorSearch' = <<>> /\ directorSearch' = <<>>
         /\ selectedGenre' = Null /\ selectedCountry' = Null /\ selectedYear' = Null
         /\ selectedActor' = Null /\ selectedDirector' = Null
         /\ CountIssued("fetchMovies", "movie") = 1
         /\ \A r \in IssuedSet : r.fn = "fetchMovies" => r.page = 1]_vars

\* C6: once reset() was the last user action and every movie fetch in flight has
\* been answered, the movie list is page 1 of the unfiltered query and page = 1;
\* and every movie fetch reset() issues carries no filter key.
C6_ResetRestoresUnfiltered ==
    /\ []((last = "reset" /\ PendingOf("movie") = {})
             => (movies = UnfilteredPageOne /\ page = 1))
    /\ [][UserStep("reset") =>
            \A r \in IssuedSet : r.fn = "fetchMovies" => FilterOf(r.params) = <<>>]_vars

\* C7: reset() leaves every facet's options, hasMore flag and page as they were and
\* puts no genre, country or person fetch in flight.
C7_ResetKeepsFacets ==
    [][UserStep("reset") =>
         /\ UNCHANGED facetVars
         /\ \A r \in IssuedSet : r.fn = "fetchMovies"]_vars

\* reset() clicked with loaded genre and actor lists
C7_Witness ==
    /\ last = "reset"
    /\ genres # <<>> /\ actors # <<>>
    /\ PendingOf("actor") = {} /\ PendingOf("genre") = {}

\* C8: load-more never duplicates items: no list holds the same page twice.
C8_NoDuplicateItems ==
    /\ NoDuplicates(movies)
    /\ NoDuplicates(genres) /\ NoDuplicates(countries)
    /\ NoDuplicates(actors) /\ NoDuplicates(directors)

\* C9: a load-more request (page + 1, appending) is put in flight for a source only
\* while that source's hasMore flag is set.
C9_NoLoadMoreWithoutHasMore ==
    [][\A r \in IssuedSet : r.append => (HasMoreOf(r.setter) /\ r.page > 1)]_vars

\* the "more" button clicked: page + 1 of the movie list is in flight
C9_Witness ==
    /\ last = "loadMoreMovies"
    /\ \E r \in PendingOf("movie") : r.append /\ r.page = page + 1

\* C10: a lazy-search facet puts no person fetch in flight while its search term has
\* fewer than 3 characters, and a user event under such a term leaves its options,
\* hasMore and page as they were; a change of the term to 3 characters or more puts
\* exactly one person fetch in flight, for page 1 of that term.
C10_LazySearchThreshold ==
    [][\A type \in LazyTypes :
         /\ Len(SearchOf(type)') < 3 => CountIssued("fetchPersons", type) = 0
         /\ (events' # events /\ Len(SearchOf(type)') < 3) => UNCHANGED FacetOf(type)
         /\ (SearchOf(type)' # SearchOf(type) /\ Len(SearchOf(type)') >= 3) =>
               /\ CountIssued("fetchPersons", type) = 1
               /\ \A r \in IssuedSet :
                     (r.fn = "fetchPersons" /\ r.setter = type) =>
                        /\ r.page = 1 /\ ~r.append
                        /\ r.params = <<<<"search", SearchOf(type)'>>>>
      ]_vars

\* the actor term shortened to two characters over a loaded actor list
C10_Witness ==
    /\ last = "setActorSearch" /\ Len(actorSearch) = 2
    /\ actors # <<>> /\ PendingOf("actor") = {}

\* every piece of state the component holds (its useState cells)
componentState == <<selVars, termVars, movieVars, facetVars>>

\* C11: a failed movie fetch leaves movies, hasMore and page as the last applied
\* response set them and puts the component in an error state of its own: the state
\* the component holds after the failure differs from the state it held before.
C11_FailedMovieFetchEntersError ==
    [][\A r \in Pending :
         (FetchRejects(r) /\ r.fn = "fetchMovies")
            => (UNCHANGED movieVars /\ componentState' # componentState)]_vars

\* C12: a failed genre, country or person fetch leaves the options, hasMore flag and
\* page of its own facet as they were and changes no state of any other facet nor
\* of the movie list.
C12_FailedFacetFetchChangesNothing ==
    [][\A r \in Pending :
         (FetchRejects(r) /\ r.fn \in {"fetchData", "fetchPersons"})
            => UNCHANGED <<facetVars, movieVars>>]_vars

\* the only genre load-more was put in flight and failed: the loaded page is kept
C12_Witness ==
    /\ events = 1 /\ last = "loadMoreGenres"
    /\ PendingOf("genre") = {}
    /\ Len(genres) = 1 /\ genrePage = 1 /\ hasMoreGenres

EagerTypes == {"genre", "country"}

\* the page-1 (replacing) requests in bag B that are for facet `type`
PageOneOf(B, type) ==
    [r \in {x \in BagToSet(B) : x.setter = type /\ x.page = 1 /\ ~x.append} |-> B[r]]

\* C13: mount puts exactly one page-1 fetch in flight for each of genre and country
\* and none for actor or director (the year list is built locally and has no fetch);
\* no later step puts a page-1 fetch of genre or country in flight again.
C13_EagerPageOneOnlyAtMount ==
    /\ (/\ \A type \in EagerTypes :
              /\ BagCardinality(PageOneOf(inflight, type)) = 1
              /\ \A r \in PendingOf(type) : r.fn = "fetchData" /\ r.endpoint = type
        /\ \A type \in LazyTypes : PendingOf(type) = {}
        /\ \A r \in Pending : r.endpoint \in {"genre", "country", "movie"})
    /\ [][\A type \in EagerTypes : PageOneOf(Issued, type) = EmptyBag]_vars

\* both eager lists loaded at mount and two user events later nothing of theirs is
\* in flight
C13_Witness ==
    /\ events = MaxEvents
    /\ genres = <<MapOption(GenreCatalog[1])>> /\ countries = <<MapOption(CountryCatalog[1])>>
    /\ PendingOf("genre") = {} /\ PendingOf("country") = {}

\* movies, page and hasMore before any movie response: useState([]), useState(1),
\* useState(false)
NotYetLoaded == <<<<>>, 1, FALSE>>

\* C14: a successful movie response with zero results leaves the movie-list state
\* (movies, page, hasMore) in a loaded-and-empty state that can be told from the
\* state before anything was loaded (and so from the state a failed first fetch
\* leaves behind).
C14_EmptyResultDistinguishable ==
    [][\A r \in Pending :
         (FetchMoviesThen(r) /\ Results(r.endpoint, r.params) = <<>>)
            => movieVars' # NotYetLoaded]_vars

Sources == {"genre", "country", "actor", "director", "movie"}

\* number of requests for source `setter` in flight that satisfy append = a
InFlightOf(setter, a) ==
    BagCardinality([r \in {x \in Pending : x.setter = setter /\ x.append = a}
                      |-> inflight[r]])

\* C15: a load-more request is put in flight for a source only while no fetch of
\* that source is pending: no source has two load-more requests in flight, nor a
\* load-more request together with a page-1 fetch.
C15_LoadMoreOnlyWhenIdle ==
    \A s \in Sources :
       /\ InFlightOf(s, TRUE) <= 1
       /\ InFlightOf(s, TRUE) = 1 => InFlightOf(s, FALSE) = 0

\* the responses of the service for pages 1..n of the movie query with filter q,
\* one after the other
RECURSIVE PagesUpTo(_, _)
PagesUpTo(q, n) ==
    IF n = 0 THEN <<>>
    ELSE PagesUpTo(q, n - 1) \o Results("movie", Append(q, <<"page", ToStr(n)>>))

\* the filters of the movie queries a behaviour can compose
Filters ==
    {FilterOf(MovieParams(s, g, c, y, a, d, 1)) :
        s \in TitleInputs, g \in {Null} \cup Ids(GenreCatalog),
        c \in {Null} \cup Ids(CountryCatalog), y \in {Null} \cup YearInputs,
        a \in {Null} \cup Ids(PersonCatalog), d \in {Null} \cup Ids(PersonCatalog)}

\* C16: the movie list is, in every state, the responses for pages 1..page of one
\* single query, concatenated in page order.
C16_ListIsPagesOfOneQuery ==
    \E q \in Filters : movies = PagesUpTo(q, page)

\* user events on a facet source that change no selection
FacetOps == {"setActorSearch", "setDirectorSearch", "closeOnOutsideClick",
             "loadMoreGenres", "loadMoreCountries", "loadMoreActors",
             "loadMoreDirectors"}

\* a step of facet-source activity: a facet search term changes, a facet load-more
\* is asked for, or the response of a facet fetch arrives
FacetActivity ==
    \/ events' = events + 1 /\ last' \in FacetOps
    \/ \E r \in Pending : FetchDataThen(r) \/ FetchPersonsThen(r)

\* C17: a step puts a movie fetch in flight only if it changes a selection or the
\* title search, or is reset() or the movie load-more; a step of facet-source
\* activity puts no movie fetch in flight and leaves movies, hasMore and page as
\* they were.
C17_FacetActivityFetchesNoMovies ==
    [][/\ (\E r \in IssuedSet : r.fn = "fetchMovies")
            => (selVars' # selVars \/ UserStep("reset") \/ UserStep("loadMoreMovies"))
       /\ FacetActivity
            => (CountIssued("fetchMovies", "movie") = 0 /\ UNCHANGED movieVars)
      ]_vars

\* a qualifying actor term was typed over a loaded movie list: its person fetch is
\* in flight and no movie fetch is
C17_Witness ==
    /\ last = "setActorSearch" /\ Len(actorSearch) >= 3
    /\ PendingOf("actor") # {} /\ PendingOf("movie") = {}
    /\ movies # <<>>

\* the source a request asks: the list its URL names, for a person fetch the
\* dropdown that asked
SourceOf(r) == IF r.fn = "fetchData" THEN r.endpoint ELSE r.setter

StateOf(s) ==
    CASE s = "genre" -> genreVars
      [] s = "country" -> countryVars
      [] s = "actor" -> actorVars
      [] s = "director" -> directorVars
      [] s = "movie" -> movieVars

\* C18: the response of a facet fetch writes the options, hasMore flag and page of
\* its own facet only, and removes no other request from flight; a user event
\* cancels nothing that is in flight; and while a fetch of one facet is pending, a
\* title change (a movie fetch) and a term change of a lazy facet can still be made.
C18_SourcesIndependent ==
    /\ [][/\ \A r \in Pending :
               (FetchDataThen(r) \/ FetchPersonsThen(r)) =>
                  /\ \A s \in Sources \ {SourceOf(r)} : UNCHANGED StateOf(s)
                  /\ inflight' = inflight (-) One(r)
          /\ events' # events => inflight \sqsubseteq inflight'
         ]_vars
    /\ []((events < MaxEvents /\ Pending # {}) =>
            /\ ENABLED (\E v \in TitleInputs : SetSearch(v))
            /\ ENABLED (\E term \in TermInputs : SetActorSearch(term))
            /\ ENABLED (\E term \in TermInputs : SetDirectorSearch(term)))

\* the genre list is loaded while the country fetch of the mount and an actor fetch
\* are still in flight
C18_Witness ==
    /\ genres # <<>> /\ PendingOf("genre") = {}
    /\ countries = <<>> /\ PendingOf("country") # {}
    /\ actors = <<>> /\ PendingOf("actor") # {}

SelectedOf(type) == IF type = "actor" THEN selectedActor ELSE selectedDirector
OptionsOf(type) == IF type = "actor" THEN actors ELSE directors

\* C19: whenever the actor or the director facet has a selected id, the options
\* list of that facet holds an option with that id.
C19_SelectedIdAmongOptions ==
    \A type \in LazyTypes :
       SelectedOf(type) # Null => SelectedOf(type) \in Ids(OptionsOf(type))

====
